---- MODULE Spec2Model ----
(***************************************************************************)
(* Model of WordDecoder (src/word_decoder.py): the constructor, the        *)
(* decode state machine (affix stripping, body loop, assembly) and the     *)
(* pattern classifiers is_vc / is_cvc.                                     *)
(*                                                                         *)
(* Strings are sequences of one-character strings, phoneme sequences are   *)
(* sequences of phoneme symbols.  The pronunciation dictionary holds one   *)
(* entry (dictWord -> dictPhon) drawn in Init from every word and every    *)
(* phoneme sequence within the bounds; every other word is unknown.        *)
(***************************************************************************)
EXTENDS Integers, Sequences, FiniteSets, TLC

VARIABLES dictWord, dictPhon,
          pc, assigned,
          word, word_phonemes, remaining_letters, remaining_sounds,
          letter_parts, sound_parts, indicators, decodable,
          prefix_parts, suffix_parts, decoded, ret,
          prev

vars == <<dictWord, dictPhon, pc, assigned, word, word_phonemes,
          remaining_letters, remaining_sounds, letter_parts, sound_parts,
          indicators, decodable, prefix_parts, suffix_parts, decoded, ret, prev>>

-----------------------------------------------------------------------------
(* Bounds of the model *)

MaxWordLen == 3

MaxPhonLen == 3

-----------------------------------------------------------------------------
(* Alphabet and phoneme inventory *)

AlphaLower == {"e", "s"}

AlphaUpper == {"E", "S"}

Punctuation == {"'"}

Phonemes == {"EH", "IY", "S", "Z"}

SeqsUpTo(S, n) == UNION {[1..k -> S] : k \in 1..n}

Words == SeqsUpTo(AlphaLower \cup Punctuation, MaxWordLen)

PhonemeSeqs == SeqsUpTo(Phonemes, MaxPhonLen)

Min(a, b) == IF a < b THEN a ELSE b

-----------------------------------------------------------------------------
(* Python string and list primitives used by the decoder *)

\* str.isalpha() on one character
isalpha(c) == c \in AlphaLower \cup AlphaUpper

LowerChar(c) ==
    CASE c = "E" -> "e"
      [] c = "S" -> "s"
      [] OTHER -> c

UpperChar(c) ==
    CASE c = "e" -> "E"
      [] c = "s" -> "S"
      [] OTHER -> c

RECURSIVE lower(_)
\* str.lower()
lower(s) == IF s = <<>> THEN <<>> ELSE <<LowerChar(Head(s))>> \o lower(Tail(s))

RECURSIVE upper(_)
upper(s) == IF s = <<>> THEN <<>> ELSE <<UpperChar(Head(s))>> \o upper(Tail(s))

\* s[:n]
SliceTo(s, n) == SubSeq(s, 1, Min(n, Len(s)))

\* s[n:]
SliceFrom(s, n) == SubSeq(s, Min(n, Len(s)) + 1, Len(s))

\* s[-n:]   (s[-0:] is the whole of s)
SliceLast(s, n) == IF n = 0 THEN s ELSE SubSeq(s, Len(s) - Min(n, Len(s)) + 1, Len(s))

\* s[:-n]   (s[:-0] is empty)
SliceDropLast(s, n) == IF n = 0 THEN <<>> ELSE SubSeq(s, 1, Len(s) - Min(n, Len(s)))

startswith(s, p) == Len(p) <= Len(s) /\ SubSeq(s, 1, Len(p)) = p

endswith(s, p) == Len(p) <= Len(s) /\ SubSeq(s, Len(s) - Len(p) + 1, Len(s)) = p

CharsOf(s) == {s[i] : i \in 1..Len(s)}

RECURSIVE lstripSet(_, _)
lstripSet(s, cs) ==
    IF s # <<>> /\ Head(s) \in cs THEN lstripSet(Tail(s), cs) ELSE s

RECURSIVE rstripSet(_, _)
rstripSet(s, cs) ==
    IF s # <<>> /\ s[Len(s)] \in cs THEN rstripSet(SubSeq(s, 1, Len(s) - 1), cs) ELSE s

\* A plausible slip: the strip removes nothing
lstripNone(s, chars) == s

\* str.lstrip(chars): removes every leading character that occurs in chars
lstrip(s, chars) == lstripSet(s, CharsOf(chars))

\* str.rstrip(chars): removes every trailing character that occurs in chars
rstrip(s, chars) == rstripSet(s, CharsOf(chars))

\* affix.replace('-', '')
RemoveHyphens(affix) == SelectSeq(affix, LAMBDA c : c # "-")

RECURSIVE Concat(_)
\* concatenation of a list of strings / of phoneme tuples
Concat(parts) == IF parts = <<>> THEN <<>> ELSE Head(parts) \o Concat(Tail(parts))

-----------------------------------------------------------------------------
(* Rule tables (utils): dictionaries in insertion order.  The tables are    *)
(* data handed to the decoder; the entries are chosen so that every branch *)
(* of decode is reached and so that a letter has sounds in several         *)
(* categories and several sounds in one category.                          *)

prefixes ==
    << [affix |-> <<"e", "-">>,      sounds |-> << <<"IY">> >>],
       [affix |-> <<"e", "s", "-">>, sounds |-> << <<"IY", "S">>, <<"EH", "S">> >>] >>

suffixes ==
    << [affix |-> <<"-", "s">>,      sounds |-> << <<"S">>, <<"Z">> >>],
       [affix |-> <<"-", "e", "s">>, sounds |-> << <<"EH", "Z">> >>] >>

letter_combinations ==
    << [letters |-> <<"e", "e">>, sounds |-> << <<"IY">> >>],
       [letters |-> <<"s", "s">>, sounds |-> << <<"S">>, <<"Z">> >>] >>

short_vowels == << [letter |-> "e", sounds |-> << <<"EH">>, <<"Z", "EH">> >>] >>

long_vowels == << [letter |-> "e", sounds |-> << <<"IY">> >>] >>

hard_consonants == << [letter |-> "s", sounds |-> << <<"S">> >>] >>

soft_consonants ==
    << [letter |-> "s", sounds |-> << <<"Z">>, <<"Z", "S">>, <<"S", "S">> >>] >>

all_vowel_sounds == {"EH", "IY"}

SOUND_CATEGORIES ==
    << [indicator |-> "SHORT_VOWEL",    table |-> short_vowels],
       [indicator |-> "LONG_VOWEL",     table |-> long_vowels],
       [indicator |-> "HARD_CONSONANT", table |-> hard_consonants],
       [indicator |-> "SOFT_CONSONANT", table |-> soft_consonants] >>

Indicator == {"SHORT_VOWEL", "LONG_VOWEL", "HARD_CONSONANT", "SOFT_CONSONANT",
              "LETTER_COMBO", "SILENT_E", "UNDECODABLE"}

\* sound_dict.get(this_letter, [])
Get(table, letter) ==
    LET hits == {i \in 1..Len(table) : table[i].letter = letter}
    IN  IF hits = {} THEN <<>> ELSE table[CHOOSE i \in hits : TRUE].sounds

\* the first index, in iteration order, among those that match; 0 when none does
FirstOf(hits) ==
    IF hits = {} THEN 0 ELSE CHOOSE j \in hits : \A k \in hits : j <= k

-----------------------------------------------------------------------------
(* Pronunciation dictionary (utils.simplified_cmudict) *)

\* word in utils.simplified_cmudict
InDict(w) == w = dictWord

\* utils.simplified_cmudict[word], for a word that is in the dictionary
Pronunciation(w) == dictPhon

-----------------------------------------------------------------------------
(* The decoder's mutable fields as a record:                               *)
(*   rl = remaining_letters, rs = remaining_sounds, lp = letter_parts,     *)
(*   sp = sound_parts, ind = indicators, dec = decodable                   *)

Fields == [rl |-> remaining_letters, rs |-> remaining_sounds,
           lp |-> letter_parts, sp |-> sound_parts,
           ind |-> indicators, dec |-> decodable]

\* A plausible slip: only the leading letter is absorbed and the buffers stay
handle_undecodable_keep(st) ==
    [st EXCEPT !.dec = FALSE,
               !.lp  = Append(st.lp, SliceTo(st.rl, 1)),
               !.sp  = Append(st.sp, st.rs),
               !.ind = Append(st.ind, "UNDECODABLE"),
               !.rl  = SliceFrom(st.rl, 1)]

handle_undecodable(st) ==
    [st EXCEPT !.dec = FALSE,
               !.lp  = Append(st.lp, st.rl),
               !.sp  = Append(st.sp, st.rs),
               !.ind = Append(st.ind, "UNDECODABLE"),
               !.rl  = <<>>,
               !.rs  = <<>>]

\* A plausible slip: the indicator of a silent letter is not recorded
process_single_letter_sound_untagged(st, letter, sound, indicator) ==
    [st EXCEPT !.lp  = Append(st.lp, <<letter>>),
               !.sp  = Append(st.sp, sound),
               !.ind = IF sound = <<>> THEN st.ind ELSE Append(st.ind, indicator),
               !.rl  = SliceFrom(st.rl, 1),
               !.rs  = IF st.rs # <<>> THEN SliceFrom(st.rs, Len(sound)) ELSE <<>>]

process_single_letter_sound(st, letter, sound, indicator) ==
    [st EXCEPT !.lp  = Append(st.lp, <<letter>>),
               !.sp  = Append(st.sp, sound),
               !.ind = Append(st.ind, indicator),
               !.rl  = SliceFrom(st.rl, 1),
               !.rs  = IF st.rs # <<>> THEN SliceFrom(st.rs, Len(sound)) ELSE <<>>]

-----------------------------------------------------------------------------
(* process_affixes: acc = [rl, rs, lp, sp, ind], the two buffers and the    *)
(* three lists the call returns                                            *)

AffixLettersMatch(w, affix, is_prefix) ==
    IF is_prefix THEN startswith(w, RemoveHyphens(affix))
                 ELSE endswith(w, RemoveHyphens(affix))

AffixSoundsMatch(wp, affix_sound, is_prefix) ==
    IF is_prefix THEN SliceTo(wp, Len(affix_sound)) = affix_sound
                 ELSE SliceLast(wp, Len(affix_sound)) = affix_sound

\* one pass of the outer loop: the inner loop stops at the first sound that matches
AffixEntry(acc, w, wp, entry, is_prefix) ==
    LET affix_letters == RemoveHyphens(entry.affix)
        Hit(snd) == /\ AffixLettersMatch(w, entry.affix, is_prefix)
                    /\ AffixSoundsMatch(wp, snd, is_prefix)
        j == FirstOf({n \in 1..Len(entry.sounds) : Hit(entry.sounds[n])})
        num_sounds == Len(entry.sounds[j])
    IN  IF j = 0 THEN acc
        ELSE [rl  |-> IF is_prefix THEN lstrip(acc.rl, affix_letters)
                                   ELSE rstrip(acc.rl, affix_letters),
              rs  |-> IF is_prefix THEN SliceFrom(acc.rs, num_sounds)
                                   ELSE SliceDropLast(acc.rs, num_sounds),
              lp  |-> Append(acc.lp, entry.affix),
              sp  |-> Append(acc.sp, entry.sounds[j]),
              ind |-> Append(acc.ind, "LETTER_COMBO")]

RECURSIVE AffixLoop(_, _, _, _, _, _)
AffixLoop(acc, w, wp, affixes_dict, is_prefix, i) ==
    IF i > Len(affixes_dict) THEN acc
    ELSE AffixLoop(AffixEntry(acc, w, wp, affixes_dict[i], is_prefix),
                   w, wp, affixes_dict, is_prefix, i + 1)

process_affixes(rl, rs, w, wp, affixes_dict, is_prefix) ==
    AffixLoop([rl |-> rl, rs |-> rs, lp |-> <<>>, sp |-> <<>>, ind |-> <<>>],
              w, wp, affixes_dict, is_prefix, 1)

-----------------------------------------------------------------------------
(* One iteration of the body loop *)

ComboSound(rl, rs, entry) ==
    LET Hit(snd) == startswith(rl, entry.letters) /\ SliceTo(rs, Len(snd)) = snd
    IN  FirstOf({n \in 1..Len(entry.sounds) : Hit(entry.sounds[n])})

\* index of the first letter combination that matches, 0 when none does
ComboIndex(rl, rs) ==
    LET hits == {i \in 1..Len(letter_combinations) :
                    ComboSound(rl, rs, letter_combinations[i]) # 0}
    IN  FirstOf(hits)

LetterCombinationStep(st) ==
    LET entry == letter_combinations[ComboIndex(st.rl, st.rs)]
        sound == entry.sounds[ComboSound(st.rl, st.rs, entry)]
    IN  [st EXCEPT !.lp  = Append(st.lp, entry.letters),
                   !.sp  = Append(st.sp, sound),
                   !.ind = Append(st.ind, "LETTER_COMBO"),
                   !.rl  = lstrip(st.rl, entry.letters),
                   !.rs  = SliceFrom(st.rs, Len(sound))]

SilentE(st, this_letter) ==
    /\ (Len(st.rs) = 0 \/ st.rs[1] \notin all_vowel_sounds)
    /\ this_letter = "e"

RECURSIVE CategoryLoopLast(_, _, _, _)
\* A plausible slip: within a category the last matching sound wins
CategoryLoopLast(st, matched, this_letter, k) ==
    IF k > Len(SOUND_CATEGORIES) THEN [st |-> st, matched |-> matched]
    ELSE LET cat    == SOUND_CATEGORIES[k]
             sounds == Get(cat.table, this_letter)
             Hit(snd) == SliceTo(st.rs, Len(snd)) = snd
             hits   == {n \in 1..Len(sounds) : Hit(sounds[n])}
             j      == IF hits = {} THEN 0
                       ELSE CHOOSE n \in hits : \A o \in hits : n >= o
         IN  IF j # 0
             THEN [st |-> process_single_letter_sound(st, this_letter, sounds[j], cat.indicator),
                   matched |-> TRUE]
             ELSE IF matched THEN [st |-> st, matched |-> matched]
             ELSE CategoryLoopLast(st, matched, this_letter, k + 1)

RECURSIVE CategoryLoop(_, _, _, _)
\* the loop over SOUND_CATEGORIES, entered with the matched flag as set so far
CategoryLoop(st, matched, this_letter, k) ==
    IF k > Len(SOUND_CATEGORIES) THEN [st |-> st, matched |-> matched]
    ELSE LET cat    == SOUND_CATEGORIES[k]
             sounds == Get(cat.table, this_letter)
             Hit(snd) == SliceTo(st.rs, Len(snd)) = snd
             j      == FirstOf({n \in 1..Len(sounds) : Hit(sounds[n])})
         IN  IF j # 0
             THEN [st |-> process_single_letter_sound(st, this_letter, sounds[j], cat.indicator),
                   matched |-> TRUE]
             ELSE IF matched THEN [st |-> st, matched |-> matched]
             ELSE CategoryLoop(st, matched, this_letter, k + 1)

SingleLetterStep(st) ==
    LET this_letter == st.rl[1]
        silent == SilentE(st, this_letter)
        st1 == IF silent
               THEN process_single_letter_sound(st, this_letter, <<>>, "SILENT_E")
               ELSE st
        res == CategoryLoop(st1, silent, this_letter, 1)
    IN  IF res.matched THEN res.st ELSE handle_undecodable(res.st)

-----------------------------------------------------------------------------
(* Pattern classifiers *)

\* is_vowel_sound(phoneme)
is_vowel_sound(phoneme) == phoneme \in all_vowel_sounds

\* is_vowel(letter)
is_vowel(letter) == letter \in {"a", "e", "i", "o", "u"}

ShortVowelSounds ==
    UNION {UNION {CharsOf(short_vowels[i].sounds[j]) : j \in 1..Len(short_vowels[i].sounds)} :
              i \in 1..Len(short_vowels)}

\* only_short_vowels(word): every vowel sound of the word is a short-vowel sound
only_short_vowels(w) ==
    \A i \in 1..Len(Pronunciation(w)) :
        is_vowel_sound(Pronunciation(w)[i]) => Pronunciation(w)[i] \in ShortVowelSounds

\* the body of is_vc; the result is "true", "false",
\* "KeyError" (dictionary lookup failed) or "Exception" (more than one vowel)
ShapeBody(w, allowed_blends_and_digraphs, include_long_vowels) ==
    IF ~InDict(w) THEN "KeyError"
    ELSE LET sounds == Pronunciation(w)
             consonant_part == SliceFrom(w, 1)
         IN  IF \/ Len(sounds) # 2
                \/ ~is_vowel_sound(sounds[1])
                \/ is_vowel_sound(sounds[2])
             THEN "false"
             ELSE IF ~include_long_vowels /\ ~only_short_vowels(w)
             THEN "false"
             ELSE IF \E i \in 1..Len(consonant_part) : is_vowel(consonant_part[i])
             THEN "Exception"
             ELSE IF \/ Len(consonant_part) = 1
                     \/ consonant_part \in allowed_blends_and_digraphs
             THEN "true"
             ELSE "false"

\* A plausible slip: the short-vowel test is left out
is_vc_any_vowel(w, allowed_blends_and_digraphs, include_long_vowels) ==
    ShapeBody(w, allowed_blends_and_digraphs, TRUE)

is_vc(w, allowed_blends_and_digraphs, include_long_vowels) ==
    ShapeBody(w, allowed_blends_and_digraphs, include_long_vowels)

\* the three-letter test written after the last return of is_cvc
ThreeLetterTest(w) ==
    /\ Len(w) = 3
    /\ ~is_vowel(w[1])
    /\ is_vowel(w[2])
    /\ ~is_vowel(w[3])

\* A plausible slip: the final return is the three-letter test
is_cvc_intended(w, allowed_blends_and_digraphs, include_long_vowels) ==
    IF ~InDict(w) THEN "KeyError"
    ELSE LET sounds == Pronunciation(w)
             consonant_part == SliceFrom(w, 1)
         IN  CASE Len(sounds) # 2 -> "false"
               [] ~is_vowel_sound(sounds[1]) -> "false"
               [] is_vowel_sound(sounds[2]) -> "false"
               [] ~include_long_vowels /\ ~only_short_vowels(w) -> "false"
               [] OTHER ->
                    IF \E i \in 1..Len(consonant_part) : is_vowel(consonant_part[i])
                    THEN "Exception"
                    ELSE IF ThreeLetterTest(w) THEN "true" ELSE "false"

\* is_cvc, statement by statement; the return of line 225 ends every path
\* that gets so far, so the three-letter test of line 226 is never evaluated
is_cvc(w, allowed_blends_and_digraphs, include_long_vowels) ==
    IF ~InDict(w) THEN "KeyError"
    ELSE LET sounds == Pronunciation(w)
             consonant_part == SliceFrom(w, 1)
         IN  CASE Len(sounds) # 2 -> "false"
               [] ~is_vowel_sound(sounds[1]) -> "false"
               [] is_vowel_sound(sounds[2]) -> "false"
               [] ~include_long_vowels /\ ~only_short_vowels(w) -> "false"
               [] OTHER ->
                    IF \E i \in 1..Len(consonant_part) : is_vowel(consonant_part[i])
                    THEN "Exception"
                    ELSE IF Len(consonant_part) = 1 THEN "true"
                    ELSE IF consonant_part \in allowed_blends_and_digraphs THEN "true"
                    ELSE "false"

-----------------------------------------------------------------------------
(* Inputs *)

ProbeWords == { <<"E", "s">>, <<"s">> }

AllowedBlendSets == { {}, { <<"s", "s">> } }

NoParts == [lp |-> <<>>, sp |-> <<>>, ind |-> <<>>]

NoDecoded == [letter_parts |-> <<>>, indicators |-> <<>>, sound_parts |-> <<>>,
              decodable |-> FALSE]

NoReturn == [fn |-> "none", word |-> <<>>, allowed |-> {}, long |-> FALSE,
             result |-> "none"]

AllFields == {"word", "word_phonemes", "remaining_letters", "remaining_sounds",
              "letter_parts", "sound_parts", "indicators", "decodable"}

\* no WordDecoder object exists
Blank ==
    /\ pc = "idle"
    /\ assigned = {}
    /\ word = <<>>
    /\ word_phonemes = <<>>
    /\ remaining_letters = <<>>
    /\ remaining_sounds = <<>>
    /\ letter_parts = <<>>
    /\ sound_parts = <<>>
    /\ indicators = <<>>
    /\ decodable = FALSE
    /\ prefix_parts = NoParts
    /\ suffix_parts = NoParts
    /\ decoded = NoDecoded
    /\ ret = NoReturn

\* the result of the latest completed decode, kept for comparison
NoPrev == [set |-> FALSE, decoded |-> NoDecoded]

Init ==
    /\ dictWord \in Words
    /\ dictPhon \in PhonemeSeqs
    /\ prev = NoPrev
    /\ Blank

-----------------------------------------------------------------------------
(* Actions *)

SetFields(st) ==
    /\ remaining_letters' = st.rl
    /\ remaining_sounds' = st.rs
    /\ letter_parts' = st.lp
    /\ sound_parts' = st.sp
    /\ indicators' = st.ind
    /\ decodable' = st.dec

\* A plausible slip: the dictionary test comes after the fields are set
ConstructLate(w) ==
    /\ pc = "idle"
    /\ word' = lower(w)
    /\ word_phonemes' = IF InDict(lower(w)) THEN Pronunciation(lower(w)) ELSE <<>>
    /\ remaining_letters' = lower(w)
    /\ remaining_sounds' = word_phonemes'
    /\ letter_parts' = <<>>
    /\ sound_parts' = <<>>
    /\ indicators' = <<>>
    /\ decodable' = TRUE
    /\ assigned' = AllFields
    /\ pc' = IF InDict(lower(w)) THEN "prefix" ELSE "error"
    /\ UNCHANGED <<prev, dictWord, dictPhon, prefix_parts, suffix_parts, decoded, ret>>

\* A plausible slip: letter_parts is a list shared by all decoders, so a new
\* decoder starts with the letter parts of the one before
ConstructShared(w) ==
    /\ pc = "idle"
    /\ word' = lower(w)
    /\ IF ~InDict(lower(w))
       THEN /\ pc' = "error"
            /\ assigned' = {"word"}
            /\ UNCHANGED <<word_phonemes, remaining_letters, remaining_sounds,
                           letter_parts, sound_parts, indicators, decodable>>
       ELSE /\ pc' = "prefix"
            /\ assigned' = AllFields
            /\ word_phonemes' = Pronunciation(lower(w))
            /\ remaining_letters' = lower(w)
            /\ remaining_sounds' = Pronunciation(lower(w))
            /\ letter_parts' = prev.decoded.letter_parts
            /\ sound_parts' = <<>>
            /\ indicators' = <<>>
            /\ decodable' = TRUE
    /\ UNCHANGED <<prev, dictWord, dictPhon, prefix_parts, suffix_parts, decoded, ret>>

\* __init__ up to the call of decode
Construct(w) ==
    /\ pc = "idle"
    /\ word' = lower(w)
    /\ IF ~InDict(lower(w))
       THEN /\ pc' = "error"
            /\ assigned' = {"word"}
            /\ UNCHANGED <<word_phonemes, remaining_letters, remaining_sounds,
                           letter_parts, sound_parts, indicators, decodable>>
       ELSE /\ pc' = "prefix"
            /\ assigned' = AllFields
            /\ word_phonemes' = Pronunciation(lower(w))
            /\ remaining_letters' = lower(w)
            /\ remaining_sounds' = Pronunciation(lower(w))
            /\ letter_parts' = <<>>
            /\ sound_parts' = <<>>
            /\ indicators' = <<>>
            /\ decodable' = TRUE
    /\ UNCHANGED <<prev, dictWord, dictPhon, prefix_parts, suffix_parts, decoded, ret>>

\* decode, line 79
ProcessPrefixes ==
    /\ pc = "prefix"
    /\ LET r == process_affixes(remaining_letters, remaining_sounds,
                                word, word_phonemes, prefixes, TRUE)
       IN  /\ remaining_letters' = r.rl
           /\ remaining_sounds' = r.rs
           /\ prefix_parts' = [lp |-> r.lp, sp |-> r.sp, ind |-> r.ind]
    /\ pc' = "suffix"
    /\ UNCHANGED <<prev, dictWord, dictPhon, assigned, word, word_phonemes, letter_parts,
                   sound_parts, indicators, decodable, suffix_parts, decoded, ret>>

\* decode, line 80
ProcessSuffixes ==
    /\ pc = "suffix"
    /\ LET r == process_affixes(remaining_letters, remaining_sounds,
                                word, word_phonemes, suffixes, FALSE)
       IN  /\ remaining_letters' = r.rl
           /\ remaining_sounds' = r.rs
           /\ suffix_parts' = [lp |-> r.lp, sp |-> r.sp, ind |-> r.ind]
    /\ pc' = "body"
    /\ UNCHANGED <<prev, dictWord, dictPhon, assigned, word, word_phonemes, letter_parts,
                   sound_parts, indicators, decodable, prefix_parts, decoded, ret>>

\* a body-loop iteration in which a letter combination matches
LetterCombination ==
    /\ pc = "body"
    /\ Len(remaining_letters) > 0
    /\ ComboIndex(remaining_letters, remaining_sounds) # 0
    /\ SetFields(LetterCombinationStep(Fields))
    /\ UNCHANGED <<prev, dictWord, dictPhon, pc, assigned, word, word_phonemes,
                   prefix_parts, suffix_parts, decoded, ret>>

\* A plausible slip: the skipped character takes one phoneme with it
SkipPunctuationSound ==
    /\ pc = "body"
    /\ Len(remaining_letters) > 0
    /\ ComboIndex(remaining_letters, remaining_sounds) = 0
    /\ ~isalpha(remaining_letters[1])
    /\ remaining_letters' = SliceFrom(remaining_letters, 1)
    /\ remaining_sounds' = SliceFrom(remaining_sounds, 1)
    /\ UNCHANGED <<prev, dictWord, dictPhon, pc, assigned, word, word_phonemes,
                   letter_parts, sound_parts, indicators,
                   decodable, prefix_parts, suffix_parts, decoded, ret>>

\* a body-loop iteration that skips a punctuation character
SkipPunctuation ==
    /\ pc = "body"
    /\ Len(remaining_letters) > 0
    /\ ComboIndex(remaining_letters, remaining_sounds) = 0
    /\ ~isalpha(remaining_letters[1])
    /\ remaining_letters' = SliceFrom(remaining_letters, 1)
    /\ UNCHANGED <<prev, dictWord, dictPhon, pc, assigned, word, word_phonemes,
                   remaining_sounds, letter_parts, sound_parts, indicators,
                   decodable, prefix_parts, suffix_parts, decoded, ret>>

\* a body-loop iteration on a single letter: silent E, sound categories, undecodable
SingleLetter ==
    /\ pc = "body"
    /\ Len(remaining_letters) > 0
    /\ ComboIndex(remaining_letters, remaining_sounds) = 0
    /\ isalpha(remaining_letters[1])
    /\ SetFields(SingleLetterStep(Fields))
    /\ UNCHANGED <<prev, dictWord, dictPhon, pc, assigned, word, word_phonemes,
                   prefix_parts, suffix_parts, decoded, ret>>

\* A plausible slip: the suffix segments are spliced before the body segments
AssembleOrder(pre, body, suf) == pre \o suf \o body

\* the final order of lines 126-128
AssembleParts(pre, body, suf) == pre \o body \o suf

\* the loop exit and lines 126-135
Assemble ==
    /\ pc = "body"
    /\ Len(remaining_letters) = 0
    /\ letter_parts' = AssembleParts(prefix_parts.lp, letter_parts, suffix_parts.lp)
    /\ sound_parts' = AssembleParts(prefix_parts.sp, sound_parts, suffix_parts.sp)
    /\ indicators' = AssembleParts(prefix_parts.ind, indicators, suffix_parts.ind)
    /\ decoded' = [letter_parts |-> letter_parts', indicators |-> indicators',
                   sound_parts |-> sound_parts', decodable |-> decodable]
    /\ assigned' = assigned \cup {"_decoded"}
    /\ pc' = "done"
    /\ UNCHANGED <<prev, dictWord, dictPhon, word, word_phonemes, remaining_letters,
                   remaining_sounds, decodable, prefix_parts, suffix_parts, ret>>

\* a classifier call on the decoder; it reads no field of the object, and
\* the model records one call per decoder
CallVc(w, allowed, long) ==
    /\ pc = "done"
    /\ ret = NoReturn
    /\ ret' = [fn |-> "is_vc", word |-> w, allowed |-> allowed, long |-> long,
               result |-> is_vc(w, allowed, long)]
    /\ UNCHANGED <<prev, dictWord, dictPhon, pc, assigned, word, word_phonemes,
                   remaining_letters, remaining_sounds, letter_parts, sound_parts,
                   indicators, decodable, prefix_parts, suffix_parts, decoded>>

CallCvc(w, allowed, long) ==
    /\ pc = "done"
    /\ ret = NoReturn
    /\ ret' = [fn |-> "is_cvc", word |-> w, allowed |-> allowed, long |-> long,
               result |-> is_cvc(w, allowed, long)]
    /\ UNCHANGED <<prev, dictWord, dictPhon, pc, assigned, word, word_phonemes,
                   remaining_letters, remaining_sounds, letter_parts, sound_parts,
                   indicators, decodable, prefix_parts, suffix_parts, decoded>>

\* the caller drops the decoder (or the failed construction) and starts afresh
Discard ==
    /\ pc \in {"done", "error"}
    /\ pc' = "idle"
    /\ assigned' = {}
    /\ word' = <<>>
    /\ word_phonemes' = <<>>
    /\ remaining_letters' = <<>>
    /\ remaining_sounds' = <<>>
    /\ letter_parts' = <<>>
    /\ sound_parts' = <<>>
    /\ indicators' = <<>>
    /\ decodable' = FALSE
    /\ prefix_parts' = NoParts
    /\ suffix_parts' = NoParts
    /\ decoded' = NoDecoded
    /\ ret' = NoReturn
    /\ prev' = IF pc = "done" THEN [set |-> TRUE, decoded |-> decoded] ELSE prev
    /\ UNCHANGED <<dictWord, dictPhon>>

\* the arguments of the classifier calls: the decoder's word with every set of
\* allowed blends and either flag, and its upper-case form with the defaults
CallArgs ==
    {<<word, a, l>> : a \in AllowedBlendSets, l \in BOOLEAN}
        \cup {<<upper(word), {}, FALSE>>}

DecodeStep ==
    \/ ProcessPrefixes
    \/ ProcessSuffixes
    \/ LetterCombination
    \/ SkipPunctuation
    \/ SingleLetter
    \/ Assemble

Next ==
    \/ \E w \in {dictWord, upper(dictWord)} \cup ProbeWords : Construct(w)
    \/ DecodeStep
    \/ \E args \in CallArgs : CallVc(args[1], args[2], args[3])
    \/ \E args \in CallArgs : CallCvc(args[1], args[2], args[3])
    \/ Discard

Spec == Init /\ [][Next]_vars

-----------------------------------------------------------------------------
(* Properties *)

AlphaOnly(s) == SelectSeq(s, isalpha)

\* C1: after decode completes, the concatenation of all letter_parts in final
\* order carries exactly the alphabetic letters of the lowercase word, in
\* order: no letter is dropped, duplicated or added.
LetterRoundTrip ==
    pc = "done" => AlphaOnly(Concat(letter_parts)) = AlphaOnly(word)

\* C2: when decode ends with decodable = true, the concatenation of all
\* sound_parts in final order equals the word's full phoneme sequence.
SoundRoundTrip ==
    (pc = "done" /\ decodable) => Concat(sound_parts) = word_phonemes

LastIs(seq, x) == seq # <<>> /\ seq[Len(seq)] = x

\* the steps decode still has to take are bounded by Rank
Rank ==
    CASE pc = "prefix" -> Len(word) + 3
      [] pc = "suffix" -> Len(word) + 2
      [] pc = "body"   -> Len(remaining_letters) + 1
      [] OTHER         -> 0

\* C3: every iteration of the body loop strictly shrinks remaining_letters,
\* the undecodable step empties it, and decode terminates: every step of
\* decode lowers a rank that is bounded by the word's letter count.
BodyLoopTerminates ==
    /\ [][(pc = "body" /\ pc' = "body") =>
            /\ Len(remaining_letters') < Len(remaining_letters)
            /\ (indicators' # indicators /\ LastIs(indicators', "UNDECODABLE")
                   => remaining_letters' = <<>>)]_vars
    /\ [][(pc \in {"prefix", "suffix", "body"}) => (Rank' < Rank)]_vars

\* a body iteration has run and the loop has ended
BodyLoopRan == pc = "done" /\ Len(indicators) > Len(prefix_parts.ind) + Len(suffix_parts.ind)

\* C4: a word without a pronunciation entry fails in the constructor before
\* any cursor, segment list or decodable flag is set and never reaches decode;
\* is_vc and is_cvc on such a word end in an error, not in a boolean.
UnknownWordFails ==
    /\ (pc # "idle" /\ ~InDict(word)) => pc = "error"
    /\ pc = "error" =>
          /\ assigned = {"word"}
          /\ remaining_letters = <<>> /\ remaining_sounds = <<>>
          /\ letter_parts = <<>> /\ sound_parts = <<>> /\ indicators = <<>>
          /\ decoded = NoDecoded
    /\ (ret.fn # "none" /\ ~InDict(ret.word)) => ret.result = "KeyError"

UnknownWordRejected == pc = "error" /\ ~InDict(word) /\ word # <<>>

\* no letter combination, punctuation skip, silent E or sound category applies
NoRuleMatches ==
    /\ pc = "body"
    /\ remaining_letters # <<>>
    /\ ComboIndex(remaining_letters, remaining_sounds) = 0
    /\ isalpha(remaining_letters[1])
    /\ ~SilentE(Fields, remaining_letters[1])
    /\ \A k \in 1..Len(SOUND_CATEGORIES) :
          LET sounds == Get(SOUND_CATEGORIES[k].table, remaining_letters[1])
          IN  \A j \in 1..Len(sounds) :
                 SliceTo(remaining_sounds, Len(sounds[j])) # sounds[j]

UndecodableAt == {i \in 1..Len(indicators) : indicators[i] = "UNDECODABLE"}

\* C5: when no rule matches the leading letter, the step clears decodable and
\* appends one UNDECODABLE segment holding all remaining letters and all
\* remaining phonemes; that segment is the last body segment, so in the final
\* order only suffix segments follow it.
UndecodableTerminates ==
    /\ [][NoRuleMatches =>
            /\ decodable' = FALSE
            /\ letter_parts' = Append(letter_parts, remaining_letters)
            /\ sound_parts' = Append(sound_parts, remaining_sounds)
            /\ indicators' = Append(indicators, "UNDECODABLE")
            /\ remaining_letters' = <<>>]_vars
    /\ [](Cardinality(UndecodableAt) <= 1)
    /\ [](pc = "body" => \A i \in UndecodableAt :
                            i = Len(indicators) /\ remaining_letters = <<>>)
    /\ [](pc = "done" => \A i \in UndecodableAt :
                            i = Len(indicators) - Len(suffix_parts.ind))

\* an UNDECODABLE segment followed by a spliced suffix segment
UndecodableBeforeSuffix ==
    /\ pc = "done"
    /\ ~decodable
    /\ suffix_parts.ind # <<>>
    /\ UndecodableAt # {}

\* C6: affix stripping stops at the first entry that matches, so there is at
\* most one prefix segment and at most one suffix segment.
FirstAffixMatchWins ==
    Len(prefix_parts.ind) <= 1 /\ Len(suffix_parts.ind) <= 1

\* C7: no body segment exists before both affix passes have run, the body
\* iterations leave the affix segments alone, and the final order is prefix
\* segments, body segments, suffix segments.
AffixPrecedence ==
    /\ [](pc \in {"prefix", "suffix"} =>
             letter_parts = <<>> /\ sound_parts = <<>> /\ indicators = <<>>)
    /\ [](pc = "prefix" => prefix_parts = NoParts /\ suffix_parts = NoParts)
    /\ [][(pc = "body" /\ pc' = "body") =>
             UNCHANGED <<prefix_parts, suffix_parts, word, word_phonemes>>]_vars
    /\ [][(pc = "body" /\ pc' = "done") =>
             /\ letter_parts' = prefix_parts.lp \o letter_parts \o suffix_parts.lp
             /\ sound_parts' = prefix_parts.sp \o sound_parts \o suffix_parts.sp
             /\ indicators' = prefix_parts.ind \o indicators \o suffix_parts.ind]_vars

\* a prefix was stripped, the body holds a letter combination, a suffix follows
PrefixThenCombo ==
    /\ pc = "done"
    /\ prefix_parts.ind # <<>>
    /\ Len(indicators) > Len(prefix_parts.ind) + Len(suffix_parts.ind)
    /\ indicators[Len(prefix_parts.ind) + 1] = "LETTER_COMBO"
    /\ letter_parts[Len(prefix_parts.ind) + 1] \in
          {letter_combinations[i].letters : i \in 1..Len(letter_combinations)}

\* the VC shape as section 4.2 states it
VcShape(w, allowed, long) ==
    /\ Len(Pronunciation(w)) = 2
    /\ Pronunciation(w)[1] \in all_vowel_sounds
    /\ Pronunciation(w)[2] \notin all_vowel_sounds
    /\ (long \/ Pronunciation(w)[1] \in ShortVowelSounds)
    /\ (Len(w) = 2 \/ SubSeq(w, 2, Len(w)) \in allowed)

\* C8: when is_vc returns a boolean, it returns true iff the word has exactly
\* two phonemes, a vowel then a non-vowel, the vowel short unless long vowels
\* are included, and the letters after the first are one letter or an allowed
\* blend; a word of three phonemes yields false.
IsVcResult ==
    (ret.fn = "is_vc" /\ ret.result \in {"true", "false"}) =>
        /\ (ret.result = "true") <=> VcShape(ret.word, ret.allowed, ret.long)
        /\ Len(Pronunciation(ret.word)) = 3 => ret.result = "false"

IsVcTrue == ret.fn = "is_vc" /\ ret.result = "true" /\ Len(ret.word) = 3 /\ ret.word[1] = "e"

HasLaterVowel(w) == \E i \in 2..Len(w) : w[i] \in {"a", "e", "i", "o", "u"}

\* C9: for a dictionary word with a vowel letter after the first letter,
\* is_vc and is_cvc raise the consistency error and return no boolean.
ConsistencyAlwaysRaised ==
    (ret.fn \in {"is_vc", "is_cvc"} /\ InDict(ret.word) /\ HasLaterVowel(ret.word))
        => ret.result = "Exception"

Consonant(c, allowed) ==
    /\ c # <<>>
    /\ \A i \in 1..Len(c) : c[i] \notin {"a", "e", "i", "o", "u"}
    /\ (Len(c) = 1 \/ c \in allowed)

\* C10: is_cvc returns true only for a consonant (single letter or allowed
\* blend), one vowel letter, and a consonant (single letter or allowed blend);
\* a word whose first letter is a vowel is never classified as CVC.
CvcShape ==
    (ret.fn = "is_cvc" /\ ret.result = "true") =>
        \E i \in 2..(Len(ret.word) - 1) :
            /\ Consonant(SubSeq(ret.word, 1, i - 1), ret.allowed)
            /\ ret.word[i] \in {"a", "e", "i", "o", "u"}
            /\ Consonant(SubSeq(ret.word, i + 1, Len(ret.word)), ret.allowed)

SameLength(parts) ==
    Len(parts.lp) = Len(parts.ind) /\ Len(parts.sp) = Len(parts.ind)

\* C11: in every state of decode and in the final result, letter_parts,
\* sound_parts and indicators have the same length (so has each list triple
\* returned by process_affixes), and every indicator is one of the seven
\* values of Indicator.
OneIndicatorPerSegment ==
    /\ Len(letter_parts) = Len(indicators)
    /\ Len(sound_parts) = Len(indicators)
    /\ SameLength(prefix_parts)
    /\ SameLength(suffix_parts)
    /\ \A i \in 1..Len(indicators) : indicators[i] \in Indicator
    /\ \A i \in 1..Len(prefix_parts.ind) : prefix_parts.ind[i] \in Indicator
    /\ \A i \in 1..Len(suffix_parts.ind) : suffix_parts.ind[i] \in Indicator
    /\ pc = "done" =>
          /\ Len(decoded.letter_parts) = Len(decoded.indicators)
          /\ Len(decoded.sound_parts) = Len(decoded.indicators)

\* a decodable final result with two body segments and a suffix segment
BodyAndSuffixSegments ==
    /\ pc = "done"
    /\ decodable
    /\ suffix_parts.ind # <<>>
    /\ Len(indicators) >= Len(prefix_parts.ind) + Len(suffix_parts.ind) + 2

RECURSIVE RuleMatchedLetters(_, _)
\* the letters of the segments that a rule matched (indicator not UNDECODABLE)
RuleMatchedLetters(parts, inds) ==
    IF parts = <<>> THEN <<>>
    ELSE (IF Head(inds) = "UNDECODABLE" THEN <<>> ELSE AlphaOnly(Head(parts)))
            \o RuleMatchedLetters(Tail(parts), Tail(inds))

\* C12: after decode, decodable is true if and only if every alphabetic
\* letter of the word lies in the letter_part of a segment whose indicator is
\* not UNDECODABLE.
DecodableMeansAllLettersMatched ==
    pc = "done" =>
        (decodable <=> RuleMatchedLetters(letter_parts, indicators) = AlphaOnly(word))

SomeComboMatches ==
    /\ pc = "body"
    /\ remaining_letters # <<>>
    /\ \E i \in 1..Len(letter_combinations) :
          \E j \in 1..Len(letter_combinations[i].sounds) :
             /\ startswith(remaining_letters, letter_combinations[i].letters)
             /\ startswith(remaining_sounds, letter_combinations[i].sounds[j])

\* C14: when a letter combination P matches with phoneme sequence S, the step
\* removes exactly the leading Len(P) letters and the leading Len(S) phonemes
\* and appends exactly the one segment (P, S, LETTER_COMBO).
ComboConsumesExactlyTheMatch ==
    [][SomeComboMatches =>
         \E i \in 1..Len(letter_combinations) :
            \E j \in 1..Len(letter_combinations[i].sounds) :
               LET P == letter_combinations[i].letters
                   S == letter_combinations[i].sounds[j]
               IN  /\ startswith(remaining_letters, P)
                   /\ startswith(remaining_sounds, S)
                   /\ remaining_letters' = SubSeq(remaining_letters, Len(P) + 1,
                                                  Len(remaining_letters))
                   /\ remaining_sounds' = SubSeq(remaining_sounds, Len(S) + 1,
                                                 Len(remaining_sounds))
                   /\ letter_parts' = Append(letter_parts, P)
                   /\ sound_parts' = Append(sound_parts, S)
                   /\ indicators' = Append(indicators, "LETTER_COMBO")]_vars

\* C15: a matching prefix with letters L and phonemes S leaves the word
\* without exactly its leading Len(L) letters and the phoneme sequence without
\* exactly its leading Len(S) phonemes; a matching suffix removes exactly its
\* Len(L) trailing letters and Len(S) trailing phonemes from the buffers.
AffixConsumesExactlyTheAffix ==
    /\ [][(pc = "prefix" /\ pc' = "suffix" /\ Len(prefix_parts'.lp) = 1) =>
            LET L == RemoveHyphens(prefix_parts'.lp[1])
                S == prefix_parts'.sp[1]
            IN  /\ remaining_letters' = SubSeq(word, Len(L) + 1, Len(word))
                /\ remaining_sounds' = SubSeq(word_phonemes, Len(S) + 1,
                                              Len(word_phonemes))]_vars
    /\ [][(pc = "suffix" /\ pc' = "body" /\ Len(suffix_parts'.lp) = 1) =>
            LET L == RemoveHyphens(suffix_parts'.lp[1])
                S == suffix_parts'.sp[1]
            IN  /\ remaining_letters' =
                      SubSeq(remaining_letters, 1, Len(remaining_letters) - Len(L))
                /\ remaining_sounds' =
                      SubSeq(remaining_sounds, 1, Len(remaining_sounds) - Len(S))]_vars

\* the leading letter is 'e', no letter combination matches, and no phoneme
\* remains or the leading phoneme is not a vowel sound
SilentECase ==
    /\ pc = "body"
    /\ remaining_letters # <<>>
    /\ ~SomeComboMatches
    /\ remaining_letters[1] = "e"
    /\ (remaining_sounds = <<>> \/ remaining_sounds[1] \notin all_vowel_sounds)

\* C16: in an iteration of the silent-E case exactly one segment, tagged
\* SILENT_E, is appended, one letter and no phoneme is consumed, and the
\* sound categories add nothing in that iteration.
SilentEOnly ==
    [][SilentECase =>
         /\ letter_parts' = Append(letter_parts, <<"e">>)
         /\ sound_parts' = Append(sound_parts, <<>>)
         /\ indicators' = Append(indicators, "SILENT_E")
         /\ remaining_letters' = Tail(remaining_letters)
         /\ remaining_sounds' = remaining_sounds]_vars

\* the pairs <<category, sequence>> whose sequence equals the same-length
\* prefix of the remaining phonemes, for the leading letter
CategoryHits ==
    {kj \in (1..Len(SOUND_CATEGORIES)) \X (1..MaxPhonLen + 1) :
        LET sounds == Get(SOUND_CATEGORIES[kj[1]].table, remaining_letters[1])
        IN  /\ kj[2] <= Len(sounds)
            /\ startswith(remaining_sounds, sounds[kj[2]])}

\* the leading letter reaches the sound-category stage and a sequence matches
CategoryCase ==
    /\ pc = "body"
    /\ remaining_letters # <<>>
    /\ ~SomeComboMatches
    /\ isalpha(remaining_letters[1])
    /\ ~SilentECase
    /\ CategoryHits # {}

\* C17: at the sound-category stage the first matching sequence in the order
\* SHORT_VOWEL, LONG_VOWEL, HARD_CONSONANT, SOFT_CONSONANT and, within a
\* category, in stored order wins: one segment with that category's
\* indicator is appended, one letter and Len(sequence) phonemes are consumed.
CategoryPriority ==
    [][CategoryCase =>
         LET first == CHOOSE kj \in CategoryHits :
                         \A o \in CategoryHits :
                            kj[1] < o[1] \/ (kj[1] = o[1] /\ kj[2] <= o[2])
             seq == Get(SOUND_CATEGORIES[first[1]].table, remaining_letters[1])[first[2]]
         IN  /\ letter_parts' = Append(letter_parts, <<remaining_letters[1]>>)
             /\ sound_parts' = Append(sound_parts, seq)
             /\ indicators' = Append(indicators,
                                     <<"SHORT_VOWEL", "LONG_VOWEL", "HARD_CONSONANT",
                                       "SOFT_CONSONANT">>[first[1]])
             /\ remaining_letters' = Tail(remaining_letters)
             /\ remaining_sounds' = SubSeq(remaining_sounds, Len(seq) + 1,
                                           Len(remaining_sounds))]_vars

\* the hard sound of 's' won although a soft sound ('S','S') matched as well
HardWonOverSoft ==
    /\ pc = "done"
    /\ prefix_parts.ind = <<>>
    /\ word[1] = "s"
    /\ startswith(word_phonemes, <<"S", "S">>)
    /\ indicators # <<>>
    /\ indicators[1] = "HARD_CONSONANT"
    /\ sound_parts[1] = <<"S">>

\* the leading remaining character is punctuation and no combination matches
PunctuationCase ==
    /\ pc = "body"
    /\ remaining_letters # <<>>
    /\ ~SomeComboMatches
    /\ ~isalpha(remaining_letters[1])

\* C18: a punctuation step removes exactly the leading character from the
\* remaining letters and leaves the remaining phonemes, the three segment
\* lists and the decodable flag unchanged.
PunctuationSkipFrame ==
    [][PunctuationCase =>
         /\ remaining_letters' = Tail(remaining_letters)
         /\ UNCHANGED <<remaining_sounds, letter_parts, sound_parts,
                        indicators, decodable>>]_vars

\* a decoded word whose apostrophe was skipped between two segments
ApostropheSkipped ==
    /\ pc = "done"
    /\ decodable
    /\ Len(word) = 3
    /\ word[2] = "'"
    /\ Len(letter_parts) = 2
    /\ remaining_sounds = <<>>
    /\ \A i \in 1..Len(letter_parts) : "'" \notin CharsOf(letter_parts[i])

\* C19: for every word, allowed-blends set and include_long_vowels flag,
\* is_cvc and is_vc produce the same outcome (the same boolean or the same
\* error): a recorded result of either equals what the other computes.
CvcDuplicatesVc ==
    /\ ret.fn = "is_cvc" => ret.result = is_vc(ret.word, ret.allowed, ret.long)
    /\ ret.fn = "is_vc" => ret.result = is_cvc(ret.word, ret.allowed, ret.long)

\* is_cvc answered True for a two-letter vowel-consonant word
CvcTrueOnTwoLetters ==
    /\ ret.fn = "is_cvc"
    /\ ret.result = "true"
    /\ Len(ret.word) = 2
    /\ is_vowel(ret.word[1])

\* one prefix and one suffix have been recorded for the word
OnePrefixOneSuffix ==
    /\ pc \in {"body", "assemble", "done"}
    /\ Len(prefix_parts.lp) = 1
    /\ Len(suffix_parts.lp) = 1

\* C20: for a word that matches both a prefix and a suffix, the two affix
\* segments together account for no more letters than the word has and for
\* no more phonemes than its pronunciation has.
AffixesDoNotOverlap ==
    OnePrefixOneSuffix =>
        /\ Len(RemoveHyphens(prefix_parts.lp[1])) + Len(RemoveHyphens(suffix_parts.lp[1]))
              <= Len(word)
        /\ Len(prefix_parts.sp[1]) + Len(suffix_parts.sp[1]) <= Len(word_phonemes)

====
